---- MODULE Spec2Model ----
(***************************************************************************)
(* StudyByEnergy: the session/timer state machine of App.tsx, its          *)
(* localStorage record, the countdown interval, and the fire-and-forget    *)
(* call of syncSession (lib/supabase.ts).                                  *)
(*                                                                         *)
(* One action is one browser task: an event handler or the interval        *)
(* callback, the React render it causes, and the effects of that render    *)
(* (save-session effect, timer effect).                                    *)
(***************************************************************************)
EXTENDS Integers, Sequences, FiniteSets, TLC

VARIABLES
    \* ---- React state of App (part_001:394-409)
    energyLevel, currentActivity, showReflection,
    showTimer, timerDuration, timeRemaining, isTimerRunning,
    pomodoroEnabled, sessionComplete, showFeedback,
    timerRef, isAuthenticated,
    mounted,        \* the App instance is in the React tree
    \* ---- React state of CloudSync (part_001:217-221) and what it has in flight
    user, isOpen, email, isLoading, message,
    pending,        \* the request a handler of CloudSync awaits: its name, or "none"
    timeouts,       \* the setTimeout callbacks of handleSignOut not yet run
    lookup,         \* the getUser() of CloudSync's auth effect (see InitialLookup)
    \* ---- the browser
    storage,        \* localStorage item 'studyByEnergySession': <<>> or <<text>>
    intervals,      \* handles of the live window.setInterval registrations
    \* ---- the remote side
    configured,     \* isSupabaseConfigured, i.e. supabase # null
    identity,       \* the user the auth provider resolves at this moment
    syncCalls,      \* the syncSession calls started so far, each with its stage
    sessions,       \* the remote 'sessions' collection
    reads,          \* the getUserSessions calls started so far, each with its stage
    \* ---- history
    op,             \* the operation of App that acted last: <<name, argument>>
    pre,            \* the world just before that operation (see Before)
    cop,            \* the operation of CloudSync that acted last: <<name, argument>>
    cpre            \* CloudSync just before that operation (see Cloud)

appVars == <<energyLevel, currentActivity, showReflection, showTimer,
             timerDuration, timeRemaining, isTimerRunning, pomodoroEnabled,
             sessionComplete, showFeedback, timerRef, isAuthenticated, mounted>>
cloudVars == <<user, isOpen, email, isLoading, message, pending, timeouts, lookup>>
browserVars == <<storage, intervals>>
remoteVars == <<configured, identity, syncCalls, sessions, reads>>
histVars == <<op, pre>>
cloudHistVars == <<cop, cpre>>
vars == <<appVars, cloudVars, browserVars, remoteVars, histVars, cloudHistVars>>

-----------------------------------------------------------------------------
(* Values *)

NULL == "null"

EnergyLevels == {"low", "medium", "high"}
Activities == {"study", "rest", "reflect"}
FeedbackChoices == {"good", "okay", "could_be_better"}
NoFeedback == "undefined"

DefaultDuration == 25
SecondsPerMinute == 60
SliderMin == 5
SliderMax == 90
SliderStep == 5
NoTimer == 0

\* The largest duration the user picks on the settings screen.
MaxDuration == 5

\* The most syncSession calls a behaviour starts.
MaxSyncCalls == 1

Users == {"u1"}

PresetDurations == {10, 25, 45}
SliderDurations == {d \in SliderMin..SliderMax : (d - SliderMin) % SliderStep = 0}
Durations == {d \in PresetDurations \cup SliderDurations : d <= MaxDuration}

-----------------------------------------------------------------------------
(* The world an operation of App reads and writes, as one record. *)

World ==
    [energyLevel |-> energyLevel, currentActivity |-> currentActivity,
     showReflection |-> showReflection, showTimer |-> showTimer,
     timerDuration |-> timerDuration, timeRemaining |-> timeRemaining,
     isTimerRunning |-> isTimerRunning, pomodoroEnabled |-> pomodoroEnabled,
     sessionComplete |-> sessionComplete, showFeedback |-> showFeedback,
     timerRef |-> timerRef, isAuthenticated |-> isAuthenticated,
     mounted |-> mounted,
     storage |-> storage, intervals |-> intervals,
     syncCalls |-> syncCalls]

\* What the history keeps of a world: all of it, the syncSession calls as their
\* number.
Before(w) == [w EXCEPT !.syncCalls = Len(@)]

\* useState initial values of a fresh App instance.
InitialState(st, calls) ==
    [energyLevel |-> NULL, currentActivity |-> NULL,
     showReflection |-> FALSE, showTimer |-> FALSE,
     timerDuration |-> DefaultDuration, timeRemaining |-> 0,
     isTimerRunning |-> FALSE, pomodoroEnabled |-> FALSE,
     sessionComplete |-> FALSE, showFeedback |-> FALSE,
     timerRef |-> NoTimer, isAuthenticated |-> FALSE,
     mounted |-> TRUE,
     storage |-> st, intervals |-> {},
     syncCalls |-> calls]

\* The CloudSync instance, as one record.
Cloud ==
    [user |-> user, isOpen |-> isOpen, email |-> email,
     isLoading |-> isLoading, message |-> message,
     pending |-> pending, timeouts |-> timeouts]

\* useState initial values of a fresh CloudSync instance, nothing in flight.
InitialCloud ==
    [user |-> NULL, isOpen |-> FALSE, email |-> "",
     isLoading |-> FALSE, message |-> "",
     pending |-> "none", timeouts |-> 0]

\* The supabase.auth.getUser() the auth effect of a fresh CloudSync instance
\* sends: none without the client (`if (!supabase) return`); else sent, then
\* answered by the provider (user: what the answer carries; newer: a
\* notification has been delivered to CloudSync since the answer was produced),
\* then done (the .then callback has run, or the promise was rejected).
InitialLookup(isConfigured) ==
    [stage |-> IF isConfigured THEN "sent" ELSE "none",
     user |-> NULL, newer |-> FALSE]

\* A notification of onAuthStateChange is delivered while lookup l is out.
Notified(l) == IF l.stage = "answered" THEN [l EXCEPT !.newer = TRUE] ELSE l

-----------------------------------------------------------------------------
(* JSON text of the session record *)

JsonValue(v) ==
    IF v = NULL THEN [tok |-> "null", chars |-> ""]
                ELSE [tok |-> "string", chars |-> v]

FromJsonValue(j) == IF j.tok = "null" THEN NULL ELSE j.chars

\* JSON.stringify(session), session = {energyLevel, currentActivity, timestamp}.
\* The timestamp is written and never read back; its value is not modelled.
JSONStringify(e, a) ==
    [syntax |-> "object",
     energyLevel |-> JsonValue(e),
     currentActivity |-> JsonValue(a),
     timestamp |-> [tok |-> "string", chars |-> "iso"]]

\* A payload JSON.parse throws on.
CorruptText == [syntax |-> "invalid"]

\* JSON.parse: the session, or ok = FALSE when it throws.
JSONParse(text) ==
    IF text.syntax = "object"
    THEN [ok |-> TRUE,
          energyLevel |-> FromJsonValue(text.energyLevel),
          currentActivity |-> FromJsonValue(text.currentActivity)]
    ELSE [ok |-> FALSE, energyLevel |-> NULL, currentActivity |-> NULL]

-----------------------------------------------------------------------------
(* Effects *)

\* Mutant: no try/catch around JSON.parse: the exception leaves the effect and
\* React unmounts the tree, so no state is left to read.
LoadEffectNoCatch(w) ==
    IF w.storage = <<>> THEN w
    ELSE LET session == JSONParse(w.storage[1]) IN
         IF session.ok
         THEN [w EXCEPT !.energyLevel = session.energyLevel,
                        !.currentActivity = session.currentActivity]
         ELSE [w EXCEPT !.energyLevel = "unmounted",
                        !.currentActivity = "unmounted"]

\* Mutant: setEnergyLevel(session.energyLevel) left out.
LoadEffectActivityOnly(w) ==
    IF w.storage = <<>> THEN w
    ELSE LET session == JSONParse(w.storage[1]) IN
         IF session.ok
         THEN [w EXCEPT !.currentActivity = session.currentActivity]
         ELSE w

\* Load session from localStorage on mount.
LoadEffect(w) ==
    IF w.storage = <<>> THEN w
    ELSE LET session == JSONParse(w.storage[1]) IN
         IF session.ok
         THEN [w EXCEPT !.energyLevel = session.energyLevel,
                        !.currentActivity = session.currentActivity]
         ELSE w

\* Mutant: the write without its `if (energyLevel || currentActivity)`.
SaveEffectBodyAlways(w) ==
    [w EXCEPT !.storage = <<JSONStringify(w.energyLevel, w.currentActivity)>>]

\* The body of the save effect: localStorage.setItem when either field is set.
SaveEffectBody(w) ==
    IF w.energyLevel # NULL \/ w.currentActivity # NULL
    THEN [w EXCEPT !.storage =
              <<JSONStringify(w.energyLevel, w.currentActivity)>>]
    ELSE w

\* Mutant: currentActivity missing from the dependency list.
SaveEffectEnergyDepOnly(p, w) ==
    IF p.energyLevel = w.energyLevel THEN w ELSE SaveEffectBody(w)

\* The save effect, deps [energyLevel, currentActivity]: the body runs when
\* either changed since the previous render (p).
SaveEffect(p, w) ==
    IF <<p.energyLevel, p.currentActivity>> = <<w.energyLevel, w.currentActivity>>
    THEN w
    ELSE SaveEffectBody(w)

\* window.setInterval: a handle no live interval has.
SetInterval(live) == CHOOSE i \in 1..(Cardinality(live) + 1) : i \notin live

\* Mutant: timerRef.current = null without the clearInterval.
ClearTimerRefKeepsInterval(w) ==
    IF w.timerRef # NoTimer
    THEN [w EXCEPT !.timerRef = NoTimer]
    ELSE w

ClearTimerRef(w) ==
    IF w.timerRef # NoTimer
    THEN [w EXCEPT !.intervals = @ \ {w.timerRef}, !.timerRef = NoTimer]
    ELSE w

\* The body of the timer effect.
TimerEffectBody(w) ==
    IF w.isTimerRunning /\ w.timeRemaining > 0
    THEN LET id == SetInterval(w.intervals) IN
         [w EXCEPT !.timerRef = id, !.intervals = @ \cup {id}]
    ELSE IF ~w.isTimerRunning /\ w.timerRef # NoTimer
         THEN ClearTimerRef(w)
         ELSE w

\* Mutant: no cleanup and no clearInterval when the flag is cleared.
TimerEffectNoClear(p, w) ==
    IF p.isTimerRunning = w.isTimerRunning
    THEN w
    ELSE IF w.isTimerRunning /\ w.timeRemaining > 0
         THEN LET id == SetInterval(w.intervals) IN
              [w EXCEPT !.timerRef = id, !.intervals = @ \cup {id}]
         ELSE w

\* Mutant: no dependency array and no cleanup: the body runs after every
\* render.
TimerEffectEveryRender(p, w) == TimerEffectBody(w)

\* The timer effect, deps [isTimerRunning]: when the flag changed since the
\* previous render (p), the previous run's cleanup and then the body.
TimerEffect(p, w) ==
    IF p.isTimerRunning = w.isTimerRunning
    THEN w
    ELSE TimerEffectBody(ClearTimerRef(w))

\* The render after an operation took the world from p to w, with its effects.
Render(p, w) == TimerEffect(p, SaveEffect(p, w))

\* A fresh App instance over storage st: the first render with the useState
\* defaults and every effect's first run, then the render the load effect's
\* setState calls cause.
Mount(st, calls) ==
    LET w0 == TimerEffectBody(SaveEffectBody(InitialState(st, calls)))
        w1 == LoadEffect(w0)
    IN Render(w0, w1)

\* The save effect of the render after an operation took the world from p to w
\* calls localStorage.setItem.
SaveEffectWrites(p, w) ==
    /\ <<p.energyLevel, p.currentActivity>> # <<w.energyLevel, w.currentActivity>>
    /\ (w.energyLevel # NULL \/ w.currentActivity # NULL)

\* React removes the App instance of world w from the tree: the cleanup of the
\* timer effect runs, and the state of the instance is no more (its fields read
\* as the useState defaults from here on). The storage is as it was.
Unmount(w) ==
    [InitialState(w.storage, w.syncCalls) EXCEPT
        !.mounted = FALSE,
        !.intervals = ClearTimerRef(w).intervals]

\* The render after an operation took the world to w, when the setItem of the
\* save effect throws (the quota is exceeded): nothing is written and nothing
\* catches the exception, neither in the effect nor in App, which has no error
\* boundary, so React removes App from the tree.
RenderWriteFails(p, w) == Unmount(w)

\* A fresh App instance over storage st, when the setItem of the render that
\* follows the load effect throws.
MountWriteFails(st, calls) ==
    LET w0 == TimerEffectBody(SaveEffectBody(InitialState(st, calls)))
        w1 == LoadEffect(w0)
    IN RenderWriteFails(w0, w1)

-----------------------------------------------------------------------------
(* What the render offers: the screen shown, from the conditions of the JSX. *)

\* Mutant: the `!energyLevel` branch left out, so that the activity buttons show
\* whenever no activity is chosen.
ScreenNoEnergyGate(w) ==
    IF w.currentActivity = NULL THEN "EnergyChosen"
    ELSE IF w.sessionComplete /\ ~w.showFeedback THEN "TimerComplete"
    ELSE IF w.showFeedback THEN "FeedbackPrompt"
    ELSE IF ~w.showTimer THEN "ActivityChosen"
    ELSE "Timer"

\* Mutant: the completion screen without its `sessionComplete &&`.
ScreenNoCompleteGate(w) ==
    IF ~w.mounted THEN "Unmounted"
    ELSE IF w.energyLevel = NULL THEN "Idle"
    ELSE IF w.currentActivity = NULL THEN "EnergyChosen"
    ELSE IF ~w.showFeedback THEN "TimerComplete"
    ELSE IF w.showFeedback THEN "FeedbackPrompt"
    ELSE IF ~w.showTimer THEN "ActivityChosen"
    ELSE "Timer"

Screen(w) ==
    IF ~w.mounted THEN "Unmounted"
    ELSE IF w.energyLevel = NULL THEN "Idle"
    ELSE IF w.currentActivity = NULL THEN "EnergyChosen"
    ELSE IF w.sessionComplete /\ ~w.showFeedback THEN "TimerComplete"
    ELSE IF w.showFeedback THEN "FeedbackPrompt"
    ELSE IF ~w.showTimer THEN "ActivityChosen"
    ELSE "Timer"

\* Mutant: the panel without its `currentActivity !== 'reflect' &&`.
SettingsShownForReflect(w) == Screen(w) = "ActivityChosen"

\* The timer settings panel of the ActivityChosen screen is hidden for reflect.
SettingsShown(w) == Screen(w) = "ActivityChosen" /\ w.currentActivity # "reflect"

\* Screens that carry a button wired to handleReset.
ResetOffered(w) ==
    Screen(w) \in {"EnergyChosen", "TimerComplete", "ActivityChosen", "Timer"}

-----------------------------------------------------------------------------
(* syncSession, up to its first await *)

\* Mutant: the record built with the default duration, not the chosen one.
SessionRecordDefaultDuration(w, feedback) ==
    [energy_level |-> w.energyLevel, activity |-> w.currentActivity,
     duration_minutes |-> DefaultDuration, feedback |-> feedback]

\* The sessionRecord handleCompleteFeedback builds.
SessionRecord(w, feedback) ==
    [energy_level |-> w.energyLevel, activity |-> w.currentActivity,
     duration_minutes |-> w.timerDuration, feedback |-> feedback]

\* A syncSession call in flight: the record it was given, where it stands
\* (stage: at which await, or settled as "resolved" with result, or "rejected"),
\* the user getUser gave it, the requests it has sent through the client, and
\* whether a request of its own failed (error).

\* Mutant: the `if (!supabase) return false` left out.
syncSessionStartNoNullCheck(isConfigured, session) ==
    [stage |-> "getUser", result |-> FALSE, session |-> session,
     user_id |-> NULL, requests |-> <<"getUser">>, error |-> FALSE]

\* syncSession(session): returns false at once when supabase is null, else
\* sends supabase.auth.getUser() and awaits it.
syncSessionStart(isConfigured, session) ==
    IF ~isConfigured
    THEN [stage |-> "resolved", result |-> FALSE, session |-> session,
          user_id |-> NULL, requests |-> <<>>, error |-> FALSE]
    ELSE [stage |-> "getUser", result |-> FALSE, session |-> session,
          user_id |-> NULL, requests |-> <<"getUser">>, error |-> FALSE]

-----------------------------------------------------------------------------
(* Event handlers of App, as functions of the world *)

\* Mutant: setEnergyLevel(level) left out.
handleEnergySelectNoSet(w, level) ==
    [w EXCEPT !.currentActivity = NULL]


handleEnergySelect(w, level) ==
    [w EXCEPT !.energyLevel = level, !.currentActivity = NULL]

\* Mutant: the `if (activity === 'reflect') setShowReflection(true)` left out.
handleActivitySelectNoReflect(w, activity) ==
    [w EXCEPT !.currentActivity = activity,
              !.showTimer = FALSE,
              !.sessionComplete = FALSE,
              !.showFeedback = FALSE]

handleActivitySelect(w, activity) ==
    [w EXCEPT !.currentActivity = activity,
              !.showTimer = FALSE,
              !.sessionComplete = FALSE,
              !.showFeedback = FALSE,
              !.showReflection = IF activity = "reflect" THEN TRUE ELSE @]

\* Mutant: the reset also puts the timer settings back to their defaults.
handleResetDefaults(w) ==
    LET cleared == ClearTimerRef(w) IN
    [cleared EXCEPT !.energyLevel = NULL,
                    !.currentActivity = NULL,
                    !.showReflection = FALSE,
                    !.showTimer = FALSE,
                    !.isTimerRunning = FALSE,
                    !.timeRemaining = 0,
                    !.sessionComplete = FALSE,
                    !.showFeedback = FALSE,
                    !.timerDuration = DefaultDuration,
                    !.pomodoroEnabled = FALSE,
                    !.storage = <<>>]

\* Mutant: localStorage.removeItem left out.
handleResetKeepsRecord(w) ==
    LET cleared == ClearTimerRef(w) IN
    [cleared EXCEPT !.energyLevel = NULL,
                    !.currentActivity = NULL,
                    !.showReflection = FALSE,
                    !.showTimer = FALSE,
                    !.isTimerRunning = FALSE,
                    !.timeRemaining = 0,
                    !.sessionComplete = FALSE,
                    !.showFeedback = FALSE]

\* Mutant: setShowReflection(false) left out.
handleResetKeepsReflection(w) ==
    LET cleared == ClearTimerRef(w) IN
    [cleared EXCEPT !.energyLevel = NULL,
                    !.currentActivity = NULL,
                    !.showTimer = FALSE,
                    !.isTimerRunning = FALSE,
                    !.timeRemaining = 0,
                    !.sessionComplete = FALSE,
                    !.showFeedback = FALSE,
                    !.storage = <<>>]

\* Mutant: a reset of a completed session hands its record to syncSession.
handleResetSyncs(w) ==
    LET cleared == ClearTimerRef(w)
        synced == IF w.sessionComplete /\ w.isAuthenticated
                  THEN Append(w.syncCalls,
                              syncSessionStart(TRUE, SessionRecord(w, NoFeedback)))
                  ELSE w.syncCalls
    IN
    [cleared EXCEPT !.energyLevel = NULL,
                    !.currentActivity = NULL,
                    !.showReflection = FALSE,
                    !.showTimer = FALSE,
                    !.isTimerRunning = FALSE,
                    !.timeRemaining = 0,
                    !.sessionComplete = FALSE,
                    !.showFeedback = FALSE,
                    !.syncCalls = synced,
                    !.storage = <<>>]

\* handleReset: the setters, localStorage.removeItem and the clearInterval.
handleReset(w) ==
    LET cleared == ClearTimerRef(w) IN
    [cleared EXCEPT !.energyLevel = NULL,
                    !.currentActivity = NULL,
                    !.showReflection = FALSE,
                    !.showTimer = FALSE,
                    !.isTimerRunning = FALSE,
                    !.timeRemaining = 0,
                    !.sessionComplete = FALSE,
                    !.showFeedback = FALSE,
                    !.storage = <<>>]

\* Mutant: the duration taken as seconds.
handleStartTimerMinutes(w) ==
    [w EXCEPT !.showTimer = TRUE,
              !.timeRemaining = w.timerDuration,
              !.sessionComplete = FALSE]


handleStartTimer(w) ==
    [w EXCEPT !.showTimer = TRUE,
              !.timeRemaining = w.timerDuration * SecondsPerMinute,
              !.sessionComplete = FALSE]

handlePlayPause(w) ==
    [w EXCEPT !.isTimerRunning = ~w.isTimerRunning]

\* Mutant: the full time of the default duration, `25 * 60`.
handleResetTimerDefault(w) ==
    [w EXCEPT !.isTimerRunning = FALSE,
              !.timeRemaining = DefaultDuration * SecondsPerMinute,
              !.sessionComplete = FALSE]

\* Mutant: setIsTimerRunning(false) left out.
handleResetTimerKeepsRunning(w) ==
    [w EXCEPT !.timeRemaining = w.timerDuration * SecondsPerMinute,
              !.sessionComplete = FALSE]


handleResetTimer(w) ==
    [w EXCEPT !.isTimerRunning = FALSE,
              !.timeRemaining = w.timerDuration * SecondsPerMinute,
              !.sessionComplete = FALSE]

\* Mutant: `isAuthenticated &&` left out of the condition.
handleCompleteFeedbackAlwaysSyncs(w, feedback, isConfigured) ==
    LET launched ==
            IF w.energyLevel # NULL /\ w.currentActivity # NULL
            THEN [w EXCEPT !.syncCalls =
                      Append(@, syncSessionStart(isConfigured,
                                                 SessionRecord(w, feedback)))]
            ELSE w
    IN handleReset([launched EXCEPT !.showFeedback = FALSE])

\* Mutant: the reset waits for the call (`await syncSession(...)`): with a call
\* started, the handler's first step ends before setShowFeedback and handleReset.
handleCompleteFeedbackAwaits(w, feedback, isConfigured) ==
    IF w.isAuthenticated /\ w.energyLevel # NULL /\ w.currentActivity # NULL
    THEN [w EXCEPT !.syncCalls =
              Append(@, syncSessionStart(isConfigured, SessionRecord(w, feedback)))]
    ELSE handleReset([w EXCEPT !.showFeedback = FALSE])


handleCompleteFeedback(w, feedback, isConfigured) ==
    LET launched ==
            IF w.isAuthenticated /\ w.energyLevel # NULL /\ w.currentActivity # NULL
            THEN [w EXCEPT !.syncCalls =
                      Append(@, syncSessionStart(isConfigured,
                                                 SessionRecord(w, feedback)))]
            ELSE w
    IN handleReset([launched EXCEPT !.showFeedback = FALSE])

\* Mutant: the closure's stale value, setTimeRemaining(timeRemaining - 1) with
\* timeRemaining as it was when the countdown was started from full.
intervalCallbackStale(w) ==
    [w EXCEPT !.timeRemaining = w.timerDuration * SecondsPerMinute - 1]

\* Mutant: setIsTimerRunning(false) left out of the completion.
intervalCallbackKeepsRunning(w) ==
    IF w.timeRemaining <= 1
    THEN [w EXCEPT !.sessionComplete = TRUE,
                   !.timeRemaining = 0]
    ELSE [w EXCEPT !.timeRemaining = @ - 1]

\* Mutant: the completion test off by one, `prev <= 0`.
intervalCallbackOffByOne(w) ==
    IF w.timeRemaining <= 0
    THEN [w EXCEPT !.isTimerRunning = FALSE,
                   !.sessionComplete = TRUE,
                   !.timeRemaining = 0]
    ELSE [w EXCEPT !.timeRemaining = @ - 1]

\* The interval callback: setTimeRemaining(prev => ...).
intervalCallback(w) ==
    IF w.timeRemaining <= 1
    THEN [w EXCEPT !.isTimerRunning = FALSE,
                   !.sessionComplete = TRUE,
                   !.timeRemaining = 0]
    ELSE [w EXCEPT !.timeRemaining = @ - 1]

\* Inline setters of the JSX.
setTimerDuration(w, d) == [w EXCEPT !.timerDuration = d]
setPomodoroEnabled(w, b) == [w EXCEPT !.pomodoroEnabled = b]
setShowFeedback(w, b) == [w EXCEPT !.showFeedback = b]

\* Mutant: onAuthChange(false) not taken: `setIsAuthenticated(prev => prev || b)`.
setIsAuthenticatedSticky(w, b) == [w EXCEPT !.isAuthenticated = @ \/ b]

\* Mutant: a sign-out that also ends the session in progress.
setIsAuthenticatedResets(w, b) ==
    IF b THEN [w EXCEPT !.isAuthenticated = b]
    ELSE [handleReset(w) EXCEPT !.isAuthenticated = b]

setIsAuthenticated(w, b) == [w EXCEPT !.isAuthenticated = b]

-----------------------------------------------------------------------------
(* Actions *)

\* The world becomes w.
Becomes(w) ==
    /\ energyLevel' = w.energyLevel
    /\ currentActivity' = w.currentActivity
    /\ showReflection' = w.showReflection
    /\ showTimer' = w.showTimer
    /\ timerDuration' = w.timerDuration
    /\ timeRemaining' = w.timeRemaining
    /\ isTimerRunning' = w.isTimerRunning
    /\ pomodoroEnabled' = w.pomodoroEnabled
    /\ sessionComplete' = w.sessionComplete
    /\ showFeedback' = w.showFeedback
    /\ timerRef' = w.timerRef
    /\ isAuthenticated' = w.isAuthenticated
    /\ mounted' = w.mounted
    /\ storage' = w.storage
    /\ intervals' = w.intervals
    /\ syncCalls' = w.syncCalls

\* The world becomes w, and the history records the operation and the world p
\* it acted on.
BecomeFrom(name, arg, p, w) ==
    /\ Becomes(w)
    /\ op' = <<name, arg>>
    /\ pre' = Before(p)
    /\ UNCHANGED <<configured, identity, sessions, reads, cloudVars, cloudHistVars>>

Become(name, arg, w) == BecomeFrom(name, arg, World, w)

\* An operation of the mounted App took the world to w: React renders and runs
\* the effects.
Commit(name, arg, w) == Become(name, arg, Render(World, w))

EnergySelect(level) ==
    /\ Screen(World) = "Idle"
    /\ Commit("handleEnergySelect", level, handleEnergySelect(World, level))

ActivitySelect(activity) ==
    /\ Screen(World) = "EnergyChosen"
    /\ Commit("handleActivitySelect", activity, handleActivitySelect(World, activity))

Reset ==
    /\ ResetOffered(World)
    /\ Commit("handleReset", NULL, handleReset(World))

SetTimerDuration(d) ==
    /\ SettingsShown(World)
    /\ Commit("setTimerDuration", NULL, setTimerDuration(World, d))

SetPomodoroEnabled ==
    /\ SettingsShown(World)
    /\ Commit("setPomodoroEnabled", NULL, setPomodoroEnabled(World, ~pomodoroEnabled))

StartTimer ==
    /\ SettingsShown(World)
    /\ Commit("handleStartTimer", NULL, handleStartTimer(World))

PlayPause ==
    /\ Screen(World) = "Timer"
    /\ Commit("handlePlayPause", NULL, handlePlayPause(World))

ResetTimer ==
    /\ Screen(World) = "Timer"
    /\ Commit("handleResetTimer", NULL, handleResetTimer(World))

RequestFeedback ==
    /\ Screen(World) = "TimerComplete"
    /\ Commit("setShowFeedback", NULL, setShowFeedback(World, TRUE))

\* (A behaviour starts MaxSyncCalls calls at most: no feedback that would start
\* one more.)
CompleteFeedback(feedback) ==
    /\ Screen(World) = "FeedbackPrompt"
    /\ isAuthenticated => Len(syncCalls) < MaxSyncCalls
    /\ Commit("handleCompleteFeedback", feedback,
              handleCompleteFeedback(World, feedback, configured))

\* One firing of live interval i.
Tick(i) ==
    /\ i \in intervals
    /\ Commit("tick", NULL, intervalCallback(World))

\* The page is reloaded: the document and its intervals are gone, and a fresh
\* App instance mounts over the same localStorage.
Reload ==
    /\ Become("mount", NULL, Mount(storage, syncCalls))

-----------------------------------------------------------------------------
(* Specifications *)

InitialStorages == {<<>>, <<CorruptText>>}

\* A fresh App instance has mounted over storage st.
Mounted(st) ==
    LET w == Mount(st, <<>>) IN
    /\ energyLevel = w.energyLevel
    /\ currentActivity = w.currentActivity
    /\ showReflection = w.showReflection
    /\ showTimer = w.showTimer
    /\ timerDuration = w.timerDuration
    /\ timeRemaining = w.timeRemaining
    /\ isTimerRunning = w.isTimerRunning
    /\ pomodoroEnabled = w.pomodoroEnabled
    /\ sessionComplete = w.sessionComplete
    /\ showFeedback = w.showFeedback
    /\ timerRef = w.timerRef
    /\ isAuthenticated = w.isAuthenticated
    /\ mounted = w.mounted
    /\ storage = w.storage
    /\ intervals = w.intervals
    /\ syncCalls = w.syncCalls
    /\ op = <<"mount", NULL>>
    /\ pre = Before(InitialState(st, <<>>))
    /\ user = InitialCloud.user
    /\ isOpen = InitialCloud.isOpen
    /\ email = InitialCloud.email
    /\ isLoading = InitialCloud.isLoading
    /\ message = InitialCloud.message
    /\ pending = InitialCloud.pending
    /\ timeouts = InitialCloud.timeouts
    /\ lookup = InitialLookup(configured)
    /\ cop = <<"mount", NULL>>
    /\ cpre = InitialCloud

InitApp(isConfigured) ==
    /\ configured = isConfigured
    /\ identity = NULL
    /\ sessions = <<>>
    /\ reads = <<>>
    /\ \E st \in InitialStorages : Mounted(st)

\* The deployment without VITE_SUPABASE_URL / VITE_SUPABASE_ANON_KEY.
Init == InitApp(FALSE)

Next ==
    \/ \E level \in EnergyLevels : EnergySelect(level)
    \/ \E activity \in Activities : ActivitySelect(activity)
    \/ Reset
    \/ \E d \in Durations : SetTimerDuration(d)
    \/ SetPomodoroEnabled
    \/ StartTimer
    \/ PlayPause
    \/ ResetTimer
    \/ RequestFeedback
    \/ \E feedback \in FeedbackChoices \cup {NoFeedback} : CompleteFeedback(feedback)
    \/ \E i \in intervals : Tick(i)
    \/ Reload

Spec == Init /\ [][Next]_vars

-----------------------------------------------------------------------------
(* The deployment without the configuration, in a browser whose storage may
   refuse a write. *)

\* An operation of the mounted App took the world to w, and the setItem of the
\* render that follows throws.
CommitWriteFails(name, arg, w) ==
    /\ SaveEffectWrites(World, w)
    /\ Become(name, arg, RenderWriteFails(World, w))

EnergySelectWriteFails(level) ==
    /\ Screen(World) = "Idle"
    /\ CommitWriteFails("handleEnergySelect", level, handleEnergySelect(World, level))

ActivitySelectWriteFails(activity) ==
    /\ Screen(World) = "EnergyChosen"
    /\ CommitWriteFails("handleActivitySelect", activity,
                        handleActivitySelect(World, activity))

\* The page is reloaded over a stored record, and the setItem of the render
\* that follows the load effect throws.
ReloadWriteFails ==
    /\ SaveEffectWrites(InitialState(storage, syncCalls),
                        LoadEffect(InitialState(storage, syncCalls)))
    /\ Become("mount", NULL, MountWriteFails(storage, syncCalls))

NextStorage ==
    \/ Next
    \/ \E level \in EnergyLevels : EnergySelectWriteFails(level)
    \/ \E activity \in Activities : ActivitySelectWriteFails(activity)
    \/ ReloadWriteFails

SpecStorage == Init /\ [][NextStorage]_vars

-----------------------------------------------------------------------------
(* The configured deployment: identity changes and the steps of syncSession. *)

\* One firing of the interval of world h[2], with its render; h is <<the world
\* before the last firing, the world now>>. No interval, no firing.
Firing(h) ==
    IF h[2].intervals = {} THEN h
    ELSE <<h[2], Render(h[2], intervalCallback(h[2]))>>

\* n firings in a row, in two halves; once the interval is gone the rest
\* change nothing.
RECURSIVE Firings(_, _)
Firings(h, n) ==
    IF n = 0 THEN h
    ELSE IF n = 1 THEN Firing(h)
    ELSE LET half == n \div 2
             mid == Firings(h, half)
         IN IF mid[2].intervals = {} THEN mid ELSE Firings(mid, n - half)

\* Start Timer, Start, and the countdown left alone until it completes.
RunTimer ==
    /\ SettingsShown(World)
    /\ Len(syncCalls) < MaxSyncCalls
    /\ LET started == Render(World, handleStartTimer(World))
           playing == Render(started, handlePlayPause(started))
           done == Firings(<<started, playing>>, playing.timeRemaining)
       IN BecomeFrom("tick", NULL, done[1], done[2])

\* supabase.auth.onAuthStateChange delivers the session of user u (NULL: signed
\* out) to CloudSync, which calls onAuthChange(!!session?.user), that is
\* setIsAuthenticated; App renders again.
AuthStateChange(u) ==
    /\ configured
    /\ mounted
    /\ identity' = u
    /\ user' = u
    /\ lookup' = Notified(lookup)
    /\ Becomes(Render(World, setIsAuthenticated(World, u # NULL)))
    /\ UNCHANGED <<configured, sessions, reads, histVars, cloudHistVars>>
    /\ UNCHANGED <<isOpen, email, isLoading, message, pending, timeouts>>

\* The provider's session ends with no notification (autoRefreshToken: false).
SessionExpires ==
    /\ configured
    /\ identity # NULL
    /\ identity' = NULL
    /\ UNCHANGED <<appVars, browserVars, configured, syncCalls, sessions, reads, cloudVars, histVars, cloudHistVars>>

\* How an awaited request of the client ends: with its data, with
\* {data: null, error}, or by throwing.
GetUserOutcomes == {"ok", "error", "throw"}

\* Mutant: no try/catch around the awaits: a throw rejects the promise.
syncSessionGotUserNoCatch(call, outcome, authUser) ==
    IF outcome = "throw"
    THEN [call EXCEPT !.stage = "rejected", !.error = TRUE]
    ELSE IF outcome = "error" \/ authUser = NULL
    THEN [call EXCEPT !.stage = "resolved", !.result = FALSE,
                      !.error = (outcome = "error")]
    ELSE [call EXCEPT !.stage = "insert", !.user_id = authUser,
                      !.requests = Append(@, "insert")]

\* Mutant: the `if (!user) return false` left out: the insert is sent with
\* whatever user.id gives.
syncSessionGotUserNoUserCheck(call, outcome, authUser) ==
    IF outcome = "throw"
    THEN [call EXCEPT !.stage = "resolved", !.result = FALSE, !.error = TRUE]
    ELSE [call EXCEPT !.stage = "insert",
                      !.user_id = IF outcome = "error" THEN NULL ELSE authUser,
                      !.error = (outcome = "error"),
                      !.requests = Append(@, "insert")]

\* syncSession after `await supabase.auth.getUser()`. A throw (of the request,
\* or of the destructuring of a response without data) goes to the catch; a
\* returned error comes with user null; with no user the call returns false;
\* with a user it sends the insert and awaits it.
syncSessionGotUser(call, outcome, authUser) ==
    IF outcome = "throw"
    THEN [call EXCEPT !.stage = "resolved", !.result = FALSE, !.error = TRUE]
    ELSE IF outcome = "error" \/ authUser = NULL
    THEN [call EXCEPT !.stage = "resolved", !.result = FALSE,
                      !.error = (outcome = "error")]
    ELSE [call EXCEPT !.stage = "insert", !.user_id = authUser,
                      !.requests = Append(@, "insert")]

\* How the insert ends for the client and for the store: "ok" (appended, no
\* error), "error" (refused, {error} returned), "throw" (the request threw and
\* the store has nothing), "lost" (the store appended and the response never
\* arrived: the request threw).
InsertOutcomes == {"ok", "error", "throw", "lost"}

\* The store appended on these outcomes.
Appends(outcome) == outcome \in {"ok", "lost"}

\* Mutant: `if (error)` left out: a returned error still ends in `return true`.
syncSessionInsertedIgnoresError(call, outcome) ==
    [call EXCEPT !.stage = "resolved",
                 !.result = (outcome \in {"ok", "error"}),
                 !.error = (outcome # "ok")]

\* Mutant: a failed insert is sent again instead of ending the call.
syncSessionInsertedRetries(call, outcome) ==
    IF outcome = "ok"
    THEN [call EXCEPT !.stage = "resolved", !.result = TRUE, !.error = FALSE]
    ELSE [call EXCEPT !.stage = "insert", !.error = TRUE,
                      !.requests = Append(@, "insert")]

\* syncSession after `await supabase.from('sessions').insert(...)`.
syncSessionInserted(call, outcome) ==
    [call EXCEPT !.stage = "resolved",
                 !.result = (outcome = "ok"),
                 !.error = (outcome # "ok")]

\* The row the insert of call number i appends as row number n of the
\* collection: the session, user_id: user.id and created_at (the order of the
\* appends stands for the clock); `by` records the call that sent it.
InsertedRow(call, i, n) ==
    [energy_level |-> call.session.energy_level,
     activity |-> call.session.activity,
     duration_minutes |-> call.session.duration_minutes,
     feedback |-> call.session.feedback,
     user_id |-> call.user_id,
     created_at |-> n,
     by |-> i]

SyncGetUser(i, outcome) ==
    /\ i \in DOMAIN syncCalls
    /\ syncCalls[i].stage = "getUser"
    /\ syncCalls' = [syncCalls EXCEPT ![i] = syncSessionGotUser(@, outcome, identity)]
    /\ UNCHANGED <<appVars, browserVars, configured, identity, sessions, reads, cloudVars, histVars, cloudHistVars>>

SyncInsert(i, outcome) ==
    /\ i \in DOMAIN syncCalls
    /\ syncCalls[i].stage = "insert"
    /\ syncCalls' = [syncCalls EXCEPT ![i] = syncSessionInserted(@, outcome)]
    /\ sessions' = IF Appends(outcome)
                   THEN Append(sessions, InsertedRow(syncCalls[i], i, Len(sessions) + 1))
                   ELSE sessions
    /\ UNCHANGED <<appVars, browserVars, configured, identity, reads, cloudVars, histVars, cloudHistVars>>

InitSync == InitApp(TRUE)

NextSync ==
    \/ \E level \in EnergyLevels : EnergySelect(level)
    \/ \E activity \in Activities : ActivitySelect(activity)
    \/ Reset
    \/ \E d \in Durations : SetTimerDuration(d)
    \/ SetPomodoroEnabled
    \/ RunTimer
    \/ RequestFeedback
    \/ \E feedback \in FeedbackChoices \cup {NoFeedback} : CompleteFeedback(feedback)
    \/ \E u \in Users \cup {NULL} : AuthStateChange(u)
    \/ SessionExpires
    \/ \E i \in 1..MaxSyncCalls, outcome \in GetUserOutcomes : SyncGetUser(i, outcome)
    \/ \E i \in 1..MaxSyncCalls, outcome \in InsertOutcomes : SyncInsert(i, outcome)

SpecSync == InitSync /\ [][NextSync]_vars

-----------------------------------------------------------------------------
(* The configured deployment with the timer's controls: the countdown is looked
   at when it has just started, at its last second and when it is over. *)

\* The values of timeRemaining at which the running countdown of world w is
\* looked at.
CheckPoints(w) == {w.timerDuration * SecondsPerMinute - 1, 1, 0}

\* The interval fires, nothing else happening meanwhile, until timeRemaining
\* is t.
Ticks(t) ==
    /\ intervals # {}
    /\ t \in CheckPoints(World)
    /\ t < timeRemaining
    /\ LET done == Firings(<<World, World>>, timeRemaining - t)
       IN BecomeFrom("tick", NULL, done[1], done[2])

\* The choices the user makes in these behaviours.
RemoteLevels == {"high"}
RemoteActivities == {"study", "reflect"}
RemoteFeedback == {"good", NoFeedback}

NextRemote ==
    \/ \E level \in RemoteLevels : EnergySelect(level)
    \/ \E activity \in RemoteActivities : ActivitySelect(activity)
    \/ Reset
    \/ \E d \in Durations : SetTimerDuration(d)
    \/ SetPomodoroEnabled
    \/ StartTimer
    \/ PlayPause
    \/ ResetTimer
    \/ \E t \in CheckPoints(World) : Ticks(t)
    \/ RequestFeedback
    \/ \E feedback \in RemoteFeedback : CompleteFeedback(feedback)
    \/ \E u \in Users \cup {NULL} : AuthStateChange(u)
    \/ SessionExpires
    \/ \E i \in 1..MaxSyncCalls, outcome \in GetUserOutcomes : SyncGetUser(i, outcome)
    \/ \E i \in 1..MaxSyncCalls, outcome \in InsertOutcomes : SyncInsert(i, outcome)

SpecRemote == InitSync /\ [][NextRemote]_vars

-----------------------------------------------------------------------------
(* lib/supabase.ts as a library: syncSession and getUserSessions called by any
   caller, in a deployment with or without the configuration, against a
   collection that other users write to as well. *)

\* The most calls of the library, syncSession and getUserSessions together, a
\* behaviour starts.
MaxLibCalls == 3

\* The largest `limit` a caller passes.
MaxLimit == 2
ReadLimits == 1..MaxLimit

\* The records callers pass to syncSession.
LibRecords ==
    {[energy_level |-> "high", activity |-> "study",
      duration_minutes |-> DefaultDuration, feedback |-> NoFeedback]}

\* Users of the deployment other than the one at this browser.
OtherUsers == {"u2"}

\* Row number n of the collection, appended by user u before the behaviour
\* starts.
PriorRow(u, n) ==
    [energy_level |-> "low", activity |-> "rest",
     duration_minutes |-> DefaultDuration, feedback |-> "okay",
     user_id |-> u, created_at |-> n, by |-> 0]

InitialCollections ==
    {<<>>} \cup {<<PriorRow(u, 1), PriorRow(v, 2)>> : u \in OtherUsers, v \in Users}

\* A getUserSessions call in flight: its limit, where it stands, the user
\* getUser gave it, the array it returned (data), the requests it has sent, and
\* whether a request of its own failed.

\* Mutant: the `if (!supabase) return []` left out.
getUserSessionsStartNoNullCheck(isConfigured, limit) ==
    [stage |-> "getUser", limit |-> limit, user_id |-> NULL, data |-> <<>>,
     requests |-> <<"getUser">>, error |-> FALSE]

getUserSessionsStart(isConfigured, limit) ==
    IF ~isConfigured
    THEN [stage |-> "resolved", limit |-> limit, user_id |-> NULL, data |-> <<>>,
          requests |-> <<>>, error |-> FALSE]
    ELSE [stage |-> "getUser", limit |-> limit, user_id |-> NULL, data |-> <<>>,
          requests |-> <<"getUser">>, error |-> FALSE]

getUserSessionsGotUser(call, outcome, authUser) ==
    IF outcome = "throw"
    THEN [call EXCEPT !.stage = "resolved", !.error = TRUE]
    ELSE IF outcome = "error" \/ authUser = NULL
    THEN [call EXCEPT !.stage = "resolved", !.error = (outcome = "error")]
    ELSE [call EXCEPT !.stage = "select", !.user_id = authUser,
                      !.requests = Append(@, "select")]

\* Mutant: the query without its .eq('user_id', user.id).
EqAnyUser(rows, authUser) == {rows[k] : k \in DOMAIN rows}

\* .eq('user_id', user)
Eq(rows, authUser) == {rows[k] : k \in {j \in DOMAIN rows : rows[j].user_id = authUser}}

\* .order('created_at', { ascending: false })
RECURSIVE OrderDescending(_)
OrderDescending(rows) ==
    IF rows = {} THEN <<>>
    ELSE LET latest == CHOOSE r \in rows : \A q \in rows : q.created_at <= r.created_at
         IN <<latest>> \o OrderDescending(rows \ {latest})

\* .limit(limit)
Limit(ordered, limit) ==
    SubSeq(ordered, 1, IF Len(ordered) < limit THEN Len(ordered) ELSE limit)

\* The query getUserSessions builds, over the collection as it is.
SelectQuery(rows, authUser, limit) == Limit(OrderDescending(Eq(rows, authUser)), limit)

\* How the select ends: "ok" with the rows, "nodata" with data null and no
\* error, "error" with {error}, or by throwing.
SelectOutcomes == {"ok", "nodata", "error", "throw"}

\* Mutant: no try/catch and no `if (error)`: a throw rejects the promise.
getUserSessionsSelectedNoCatch(call, outcome, rows) ==
    [call EXCEPT !.stage = IF outcome = "throw" THEN "rejected" ELSE "resolved",
                 !.data = IF outcome = "ok" THEN rows ELSE <<>>,
                 !.error = (outcome \in {"error", "throw"})]

\* getUserSessions after the awaited select: `return data || []`, or [] on a
\* returned error and in the catch.
getUserSessionsSelected(call, outcome, rows) ==
    [call EXCEPT !.stage = "resolved",
                 !.data = IF outcome = "ok" THEN rows ELSE <<>>,
                 !.error = (outcome \in {"error", "throw"})]

\* A caller calls syncSession(session).
CallSyncSession(session) ==
    /\ Len(syncCalls) + Len(reads) < MaxLibCalls
    /\ syncCalls' = Append(syncCalls, syncSessionStart(configured, session))
    /\ UNCHANGED <<appVars, browserVars, configured, identity, sessions, reads, cloudVars, histVars, cloudHistVars>>

\* A caller calls getUserSessions(limit).
CallGetUserSessions(limit) ==
    /\ Len(syncCalls) + Len(reads) < MaxLibCalls
    /\ reads' = Append(reads, getUserSessionsStart(configured, limit))
    /\ UNCHANGED <<appVars, browserVars, configured, identity, syncCalls, sessions, cloudVars, histVars, cloudHistVars>>

ReadGetUser(i, outcome) ==
    /\ i \in DOMAIN reads
    /\ reads[i].stage = "getUser"
    /\ reads' = [reads EXCEPT ![i] = getUserSessionsGotUser(@, outcome, identity)]
    /\ UNCHANGED <<appVars, browserVars, configured, identity, syncCalls, sessions, cloudVars, histVars, cloudHistVars>>

ReadSelect(i, outcome) ==
    /\ i \in DOMAIN reads
    /\ reads[i].stage = "select"
    /\ reads' = [reads EXCEPT ![i] =
                    getUserSessionsSelected(@, outcome,
                        SelectQuery(sessions, reads[i].user_id, reads[i].limit))]
    /\ UNCHANGED <<appVars, browserVars, configured, identity, syncCalls, sessions, cloudVars, histVars, cloudHistVars>>

InitLib ==
    /\ configured \in BOOLEAN
    /\ identity = NULL
    /\ sessions \in InitialCollections
    /\ reads = <<>>
    /\ Mounted(<<>>)

NextLib ==
    \/ \E u \in Users \cup {NULL} : AuthStateChange(u)
    \/ \E session \in LibRecords : CallSyncSession(session)
    \/ \E i \in 1..MaxLibCalls, outcome \in GetUserOutcomes : SyncGetUser(i, outcome)
    \/ \E i \in 1..MaxLibCalls, outcome \in InsertOutcomes : SyncInsert(i, outcome)
    \/ \E limit \in ReadLimits : CallGetUserSessions(limit)
    \/ \E i \in 1..MaxLibCalls, outcome \in GetUserOutcomes : ReadGetUser(i, outcome)
    \/ \E i \in 1..MaxLibCalls, outcome \in SelectOutcomes : ReadSelect(i, outcome)

SpecLib == InitLib /\ [][NextLib]_vars

-----------------------------------------------------------------------------
(* CloudSync: the panel, the sign-in form and the sign-out button, in the
   configured deployment. *)

\* The most setTimeout callbacks of handleSignOut waiting at one time.
MaxTimeouts == 2

Emails == {"a@b.c"}

\* error.message of the error a request returned or threw; "" stands for a
\* message that is empty or missing.
ErrorMessages == {"", "Email rate limit exceeded"}

LinkSent == "Check your email for a sign-in link"
SomethingWentWrong == "Something went wrong"
SignedOut == "Signed out"
ErrorSigningOut == "Error signing out"

\* handleSignIn up to its await.
handleSignIn(c, isConfigured) ==
    IF ~isConfigured \/ c.email = "" THEN c
    ELSE [c EXCEPT !.isLoading = TRUE, !.message = "",
                   !.pending = "signInWithOtp"]

\* Mutant: the catch without its `|| 'Something went wrong'`, and the email
\* cleared whatever the outcome.
handleSignInSettledClears(c, outcome, errorMessage) ==
    [c EXCEPT !.message = IF outcome = "ok" THEN LinkSent ELSE errorMessage,
              !.email = "",
              !.isLoading = FALSE,
              !.pending = "none"]

\* handleSignIn after `await supabase.auth.signInWithOtp(...)`: a returned
\* error is thrown and caught as a thrown one is.
handleSignInSettled(c, outcome, errorMessage) ==
    IF outcome = "ok"
    THEN [c EXCEPT !.message = LinkSent, !.email = "",
                   !.isLoading = FALSE, !.pending = "none"]
    ELSE [c EXCEPT !.message = IF errorMessage = "" THEN SomethingWentWrong
                                                  ELSE errorMessage,
                   !.isLoading = FALSE, !.pending = "none"]

\* handleSignOut up to its await.
handleSignOut(c, isConfigured) ==
    IF ~isConfigured THEN c
    ELSE [c EXCEPT !.isLoading = TRUE, !.pending = "signOut"]

\* handleSignOut after `await supabase.auth.signOut()`, whose result it does
\* not look at: a returned error ends as success does; the finally schedules
\* the callback that clears the message.
handleSignOutSettled(c, outcome, errorMessage) ==
    [c EXCEPT !.message = IF outcome = "throw"
                          THEN IF errorMessage = "" THEN ErrorSigningOut
                                                    ELSE errorMessage
                          ELSE SignedOut,
              !.isLoading = FALSE,
              !.pending = "none",
              !.timeouts = @ + 1]

\* CloudSync becomes c.
CloudBecomes(c) ==
    /\ user' = c.user
    /\ isOpen' = c.isOpen
    /\ email' = c.email
    /\ isLoading' = c.isLoading
    /\ message' = c.message
    /\ pending' = c.pending
    /\ timeouts' = c.timeouts

\* An operation of CloudSync that leaves App and the remote side alone.
CloudCommit(name, arg, c) ==
    /\ configured
    /\ mounted
    /\ CloudBecomes(c)
    /\ cop' = <<name, arg>>
    /\ cpre' = Cloud
    /\ UNCHANGED <<appVars, browserVars, remoteVars, histVars, lookup>>

OpenPanel ==
    /\ ~isOpen
    /\ CloudCommit("setIsOpen", NULL, [Cloud EXCEPT !.isOpen = TRUE])

ClosePanel ==
    /\ isOpen
    /\ CloudCommit("setIsOpen", NULL, [Cloud EXCEPT !.isOpen = FALSE])

\* The sign-in form is shown and its input enabled.
FormEnabled == isOpen /\ user = NULL /\ ~isLoading

SetEmail(e) ==
    /\ FormEnabled
    /\ e # email
    /\ CloudCommit("setEmail", NULL, [Cloud EXCEPT !.email = e])

\* The button (enabled with an email typed) or the Enter key in the input
\* (with or without one) calls handleSignIn.
SignIn ==
    /\ FormEnabled
    /\ CloudCommit("handleSignIn", NULL, handleSignIn(Cloud, configured))

SignInSettles(outcome, errorMessage) ==
    /\ pending = "signInWithOtp"
    /\ CloudCommit("signInSettled", outcome,
                   handleSignInSettled(Cloud, outcome, errorMessage))

\* The sign-out button, shown with a user and disabled while isLoading.
SignOut ==
    /\ isOpen /\ user # NULL /\ ~isLoading
    /\ timeouts < MaxTimeouts
    /\ CloudCommit("handleSignOut", NULL, handleSignOut(Cloud, configured))

\* supabase.auth.signOut() settles. When the client removed its session
\* (removed; always so when the request succeeded) it has told the subscribers
\* before: the callback of the auth effect sets user to null and calls
\* onAuthChange(false). handleSignOut itself writes neither.
SignOutSettles(outcome, errorMessage, removed) ==
    /\ configured
    /\ mounted
    /\ pending = "signOut"
    /\ outcome = "ok" => removed
    /\ LET c == handleSignOutSettled(Cloud, outcome, errorMessage) IN
       CloudBecomes(IF removed THEN [c EXCEPT !.user = NULL] ELSE c)
    /\ identity' = IF removed THEN NULL ELSE identity
    /\ lookup' = IF removed THEN Notified(lookup) ELSE lookup
    /\ Becomes(IF removed THEN Render(World, setIsAuthenticated(World, FALSE))
                          ELSE World)
    /\ cop' = <<"signOutSettled", outcome>>
    /\ cpre' = Cloud
    /\ UNCHANGED <<configured, sessions, reads, histVars>>

\* A callback scheduled by handleSignOut runs: setMessage('').
MessageTimeout ==
    /\ timeouts > 0
    /\ CloudCommit("timeout", NULL,
                   [Cloud EXCEPT !.message = "", !.timeouts = @ - 1])

NextAuth ==
    \/ \E u \in Users \cup {NULL} : AuthStateChange(u)
    \/ SessionExpires
    \/ OpenPanel
    \/ ClosePanel
    \/ \E e \in Emails \cup {""} : SetEmail(e)
    \/ SignIn
    \/ \E outcome \in GetUserOutcomes, errorMessage \in ErrorMessages :
           SignInSettles(outcome, errorMessage)
    \/ SignOut
    \/ \E outcome \in GetUserOutcomes, errorMessage \in ErrorMessages,
          removed \in BOOLEAN :
           SignOutSettles(outcome, errorMessage, removed)
    \/ MessageTimeout

SpecAuth == InitSync /\ [][NextAuth]_vars

-----------------------------------------------------------------------------
(* CloudSync with the getUser() its auth effect sends at mount *)

\* The provider answers the getUser() of the auth effect: with the user it
\* holds at this moment ("ok"), with {data: {user: null}, error} ("error"), or
\* the request throws ("throw"): the promise is rejected, the .then callback
\* never runs and nothing catches the rejection.
GetUserAnswered(outcome) ==
    /\ configured
    /\ mounted
    /\ lookup.stage = "sent"
    /\ lookup' = IF outcome = "throw"
                 THEN [lookup EXCEPT !.stage = "done"]
                 ELSE [stage |-> "answered",
                       user |-> IF outcome = "ok" THEN identity ELSE NULL,
                       newer |-> FALSE]
    /\ UNCHANGED <<appVars, browserVars, remoteVars, histVars, cloudHistVars>>
    /\ UNCHANGED <<user, isOpen, email, isLoading, message, pending, timeouts>>

\* The .then callback of the getUser() runs with the answer: setUser(user) and
\* onAuthChange(!!user), whatever was delivered to CloudSync meanwhile.
GetUserResolves ==
    /\ configured
    /\ mounted
    /\ lookup.stage = "answered"
    /\ lookup' = [lookup EXCEPT !.stage = "done"]
    /\ user' = lookup.user
    /\ Becomes(Render(World, setIsAuthenticated(World, lookup.user # NULL)))
    /\ UNCHANGED <<configured, identity, sessions, reads, histVars, cloudHistVars>>
    /\ UNCHANGED <<isOpen, email, isLoading, message, pending, timeouts>>

NextLookup ==
    \/ NextAuth
    \/ \E outcome \in GetUserOutcomes : GetUserAnswered(outcome)
    \/ GetUserResolves

SpecLookup == InitSync /\ [][NextLookup]_vars

-----------------------------------------------------------------------------
(* Claims *)

FullTime == timerDuration * SecondsPerMinute

\* The fields of the world other than those in `changed` are as before the
\* last operation.
OthersAsBefore(changed) ==
    \A f \in (DOMAIN pre) \ changed : Before(World)[f] = pre[f]

\* The world w is the empty session: nothing selected, every flag cleared, no
\* time on the clock, no interval, no stored record, and a fresh mount over its
\* storage starts with nothing selected.
Cleared(w) ==
    /\ w.energyLevel = NULL /\ w.currentActivity = NULL
    /\ ~w.showReflection /\ ~w.showTimer /\ ~w.isTimerRunning
    /\ ~w.sessionComplete /\ ~w.showFeedback
    /\ w.timeRemaining = 0
    /\ w.intervals = {}
    /\ w.storage = <<>>
    /\ Mount(w.storage, <<>>).energyLevel = NULL
    /\ Mount(w.storage, <<>>).currentActivity = NULL

\* C1: handleReset followed by its render, from every reachable state and
\* wherever it has been invoked (its button, or the last step of
\* handleCompleteFeedback), leaves energyLevel and currentActivity null, clears
\* showReflection, showTimer, isTimerRunning, sessionComplete and showFeedback,
\* sets timeRemaining to 0 and removes the stored record; the save effect of
\* that render does not write the record again, so a fresh mount over the
\* storage starts empty.
C1_ResetClearsEverything ==
    /\ Cleared(Render(World, handleReset(World)))
    /\ op[1] \in {"handleReset", "handleCompleteFeedback"} => Cleared(World)

\* handleReset has acted on a running countdown with a stored record.
C1_Witness ==
    /\ op[1] = "handleReset"
    /\ pre.isTimerRunning /\ pre.timerRef # NoTimer
    /\ pre.timeRemaining > 0 /\ pre.timeRemaining < pre.timerDuration * SecondsPerMinute
    /\ pre.storage # <<>>
    /\ energyLevel = NULL /\ storage = <<>>

\* C2: a fresh App instance mounted over the local storage has the energyLevel
\* and the currentActivity of the instance it replaces.
C2_ReloadRoundTrip ==
    op[1] = "mount" =>
        /\ energyLevel = pre.energyLevel
        /\ currentActivity = pre.currentActivity

\* A reload after selectEnergy(high), selectActivity(study) and a started timer.
C2_Witness ==
    /\ op[1] = "mount"
    /\ pre.energyLevel = "high" /\ pre.currentActivity = "study" /\ pre.showTimer
    /\ energyLevel = "high" /\ currentActivity = "study"

\* C3: for every level and every reachable prior state, handleEnergySelect(level)
\* followed by its render leaves energyLevel = level and currentActivity = null.
C3_EnergySelect ==
    /\ \A level \in EnergyLevels :
           LET w == Render(World, handleEnergySelect(World, level)) IN
           w.energyLevel = level /\ w.currentActivity = NULL
    /\ op[1] = "handleEnergySelect" =>
           /\ op[2] \in EnergyLevels
           /\ energyLevel = op[2]
           /\ currentActivity = NULL

\* handleEnergySelect(medium) has acted after an earlier cycle was reset.
C3_Witness ==
    /\ op[1] = "handleEnergySelect" /\ op[2] = "medium"
    /\ energyLevel = "medium" /\ currentActivity = NULL
    /\ pre.timerDuration # DefaultDuration

\* C4 as stated: handleActivitySelect invoked while energyLevel is null changes
\* nothing.
C4_HandlerRejectsWithoutEnergy ==
    energyLevel = NULL =>
        \A a \in Activities : Render(World, handleActivitySelect(World, a)) = World

\* C4, amended: no activity is selected while no energy level is set, because
\* the buttons that call handleActivitySelect are rendered only once an energy
\* level is set: the handler only ever acts on a world with an energy level, the
\* Idle screen offers no activity, and a world without an energy level has no
\* activity.
C4_NoActivityWithoutEnergy ==
    /\ op[1] = "handleActivitySelect" => pre.energyLevel # NULL
    /\ energyLevel = NULL => currentActivity = NULL
    /\ energyLevel = NULL => \A a \in Activities : ~ENABLED ActivitySelect(a)

\* The Idle screen, back from a cycle in which an activity was selected.
C4_Witness ==
    /\ Screen(World) = "Idle"
    /\ op[1] = "handleReset"
    /\ pre.energyLevel # NULL /\ pre.currentActivity # NULL

\* C5: handleStartTimer sets timeRemaining to timerDuration * 60 (1500 for 25
\* minutes), clears sessionComplete and shows the timer, which does not count
\* yet: isTimerRunning is false and no interval is registered.
C5_StartTimer ==
    op[1] = "handleStartTimer" =>
        /\ timerDuration = pre.timerDuration
        /\ timeRemaining = pre.timerDuration * SecondsPerMinute
        /\ (pre.timerDuration = 25 => timeRemaining = 1500)
        /\ ~sessionComplete
        /\ showTimer
        /\ ~isTimerRunning
        /\ intervals = {} /\ timerRef = NoTimer

\* handleStartTimer has acted with the duration set to 25 minutes, and with it
\* set to another value.
C5_Witness ==
    /\ op[1] = "handleStartTimer"
    /\ timerDuration = 25 /\ timeRemaining = 1500
    /\ ~isTimerRunning

\* C6: a tick of the running timer at timeRemaining = n > 1 leaves
\* timeRemaining = n - 1 and changes nothing else.
C6_TickDecrements ==
    (op[1] = "tick" /\ pre.timeRemaining > 1) =>
        /\ pre.isTimerRunning
        /\ timeRemaining = pre.timeRemaining - 1
        /\ OthersAsBefore({"timeRemaining"})

\* The tick from 1500 to 1499.
C6_Witness ==
    /\ op[1] = "tick"
    /\ pre.timeRemaining = 1500 /\ timeRemaining = 1499
    /\ isTimerRunning

\* C7: the tick of a running timer at timeRemaining = 1 leaves timeRemaining = 0,
\* isTimerRunning false and sessionComplete true, and that happens once per
\* run: the interval is gone, no tick acts on a completed timer, and the
\* callback applied to the completed timer once more would change none of the
\* three.
C7_CompletionOnce ==
    /\ (op[1] = "tick" /\ pre.timeRemaining = 1) =>
           /\ pre.isTimerRunning /\ ~pre.sessionComplete
           /\ timeRemaining = 0 /\ ~isTimerRunning /\ sessionComplete
           /\ intervals = {}
    /\ op[1] = "tick" => ~pre.sessionComplete /\ pre.timeRemaining >= 1
    /\ (sessionComplete /\ timeRemaining = 0 /\ ~isTimerRunning) =>
           LET late == Render(World, intervalCallback(World)) IN
           /\ late.timeRemaining = 0
           /\ ~late.isTimerRunning
           /\ late.sessionComplete

\* The tick from 1 to 0.
C7_Witness ==
    /\ op[1] = "tick"
    /\ pre.timeRemaining = 1 /\ pre.isTimerRunning
    /\ timeRemaining = 0 /\ sessionComplete /\ ~isTimerRunning

\* C8: handlePlayPause flips isTimerRunning and changes nothing else of App's
\* state, timeRemaining included; while isTimerRunning is false no interval is
\* registered, so no tick changes timeRemaining between pause and resume.
C8_PauseResume ==
    /\ op[1] = "handlePlayPause" =>
           /\ isTimerRunning = ~pre.isTimerRunning
           /\ timeRemaining = pre.timeRemaining
           /\ OthersAsBefore({"isTimerRunning", "timerRef", "intervals"})
    /\ ~isTimerRunning => intervals = {}
    /\ op[1] = "tick" => pre.isTimerRunning

\* A resume part-way through the countdown.
C8_Witness ==
    /\ op[1] = "handlePlayPause"
    /\ ~pre.isTimerRunning /\ isTimerRunning
    /\ timeRemaining > 0 /\ timeRemaining < FullTime
    /\ timeRemaining = pre.timeRemaining

\* C9: handleResetTimer, on a running or a paused timer, leaves
\* timeRemaining = timerDuration * 60, isTimerRunning false and sessionComplete
\* false, keeps the timer shown, and leaves energyLevel, currentActivity and
\* the stored record as they were.
C9_ResetTimer ==
    op[1] = "handleResetTimer" =>
        /\ timeRemaining = pre.timerDuration * SecondsPerMinute
        /\ ~isTimerRunning
        /\ ~sessionComplete
        /\ showTimer
        /\ intervals = {}
        /\ OthersAsBefore({"timeRemaining", "isTimerRunning", "sessionComplete",
                           "timerRef", "intervals"})

\* handleResetTimer has acted on a running countdown.
C9_Witness ==
    /\ op[1] = "handleResetTimer"
    /\ pre.isTimerRunning /\ pre.timeRemaining < FullTime
    /\ timeRemaining = FullTime /\ ~isTimerRunning

\* C10: handleCompleteFeedback brings App to Idle (energyLevel and
\* currentActivity null, showFeedback false, the record removed) in its own
\* step, and App stays there whatever becomes of the syncSession call it
\* started: pending, resolved true or resolved false.
C10_FeedbackNonBlocking ==
    op[1] = "handleCompleteFeedback" =>
        /\ Screen(World) = "Idle"
        /\ energyLevel = NULL /\ currentActivity = NULL
        /\ ~showFeedback
        /\ storage = <<>>
        /\ Len(syncCalls) = pre.syncCalls + (IF pre.isAuthenticated THEN 1 ELSE 0)

\* After handleCompleteFeedback, with the call it started resolved false by a
\* failed insert.
C10_Witness ==
    /\ op[1] = "handleCompleteFeedback"
    /\ Len(syncCalls) = 1
    /\ syncCalls[1].stage = "resolved" /\ ~syncCalls[1].result
    /\ syncCalls[1].user_id # NULL
    /\ energyLevel = NULL

\* The rows of the collection that syncSession call number i appended.
RowsBy(i) == {k \in DOMAIN sessions : sessions[k].by = i}

\* The syncSession calls that have settled.
Settled == {i \in DOMAIN syncCalls : syncCalls[i].stage \in {"resolved", "rejected"}}

\* C11: handleCompleteFeedback, whichever choice it is given (good, okay,
\* could_be_better, or none on skip), starts exactly one syncSession call when
\* isAuthenticated is true and none when it is false; the call is given the
\* energy level, the activity and the duration of the cycle and the chosen
\* feedback (undefined on skip).
C11_OneSyncPerFeedback ==
    op[1] = "handleCompleteFeedback" =>
        /\ op[2] \in FeedbackChoices \cup {NoFeedback}
        /\ ~pre.isAuthenticated => Len(syncCalls) = pre.syncCalls
        /\ pre.isAuthenticated =>
               /\ Len(syncCalls) = pre.syncCalls + 1
               /\ pre.energyLevel \in EnergyLevels
               /\ pre.currentActivity \in Activities
               /\ syncCalls[Len(syncCalls)].session =
                      [energy_level |-> pre.energyLevel,
                       activity |-> pre.currentActivity,
                       duration_minutes |-> pre.timerDuration,
                       feedback |-> op[2]]

\* The prompt skipped by a signed-in user, after a cycle of 5 minutes.
C11_Witness ==
    /\ op[1] = "handleCompleteFeedback" /\ op[2] = NoFeedback
    /\ pre.isAuthenticated
    /\ Len(syncCalls) = 1
    /\ syncCalls[1].session.feedback = NoFeedback
    /\ syncCalls[1].session.duration_minutes = 5

\* C12: without the configuration (supabase is null) every syncSession call has
\* returned false having sent no request, neither getUser nor an insert, and the
\* collection has no row of any such call.
C12_UnconfiguredNoNetwork ==
    ~configured =>
        /\ \A i \in DOMAIN syncCalls :
               /\ syncCalls[i].stage = "resolved"
               /\ syncCalls[i].result = FALSE
               /\ syncCalls[i].requests = <<>>
        /\ \A k \in DOMAIN sessions : sessions[k].by = 0

\* Two calls made without the configuration.
C12_Witness ==
    /\ ~configured
    /\ Len(syncCalls) = 2
    /\ syncCalls[2].stage = "resolved" /\ ~syncCalls[2].result

\* C13: a syncSession call whose getUser gave no user returns false and sends no
\* insert; every insert sent, and every row a call appended, carries the user
\* its own getUser gave it, whatever sign-ins, sign-outs and other calls came
\* in between.
C13_NoInsertWithoutIdentity ==
    /\ \A i \in DOMAIN syncCalls :
           LET call == syncCalls[i] IN
           /\ (call.stage = "resolved" /\ call.user_id = NULL) =>
                  /\ call.result = FALSE
                  /\ \A r \in DOMAIN call.requests : call.requests[r] # "insert"
           /\ (\E r \in DOMAIN call.requests : call.requests[r] = "insert") =>
                  call.user_id \in Users
           /\ (call.user_id = NULL) => RowsBy(i) = {}
    /\ \A k \in DOMAIN sessions :
           sessions[k].by # 0 =>
               /\ sessions[k].user_id \in Users
               /\ sessions[k].user_id = syncCalls[sessions[k].by].user_id

\* A call that found no user has returned false, and the user is signed in
\* by now and another call has appended its row.
C13_Witness ==
    /\ Len(syncCalls) = 2
    /\ syncCalls[1].stage = "resolved" /\ syncCalls[1].user_id = NULL
    /\ syncCalls[1].requests = <<"getUser">> /\ ~syncCalls[1].error
    /\ identity # NULL
    /\ syncCalls[2].stage = "resolved" /\ syncCalls[2].result
    /\ RowsBy(2) # {}

\* C14: no syncSession call ends rejected: each settles with a boolean, and with
\* false whenever one of its requests returned an error or threw.
C14_SyncNeverRaises ==
    \A i \in DOMAIN syncCalls :
        LET call == syncCalls[i] IN
        /\ call.stage # "rejected"
        /\ call.stage = "resolved" => call.result \in BOOLEAN
        /\ (call.stage = "resolved" /\ call.error) => call.result = FALSE

\* One call failed at getUser and one at its insert; both returned false.
C14_Witness ==
    /\ Len(syncCalls) = 2
    /\ syncCalls[1].stage = "resolved" /\ syncCalls[1].error
    /\ syncCalls[1].requests = <<"getUser">>
    /\ syncCalls[2].stage = "resolved" /\ syncCalls[2].error
    /\ syncCalls[2].requests = <<"getUser", "insert">>
    /\ ~syncCalls[1].result /\ ~syncCalls[2].result

\* C15 as stated: a settled call returned true exactly when it appended one
\* row, that row carrying the user its getUser gave it; a call that returned
\* false appended nothing.
C15_TrueIffAppended ==
    \A i \in Settled :
        /\ syncCalls[i].result <=>
               /\ Cardinality(RowsBy(i)) = 1
               /\ \A k \in RowsBy(i) : sessions[k].user_id = syncCalls[i].user_id
        /\ ~syncCalls[i].result => RowsBy(i) = {}

\* C15, amended: a call that returned true appended exactly one row, which
\* carries the user its getUser gave it and the record it was given; no call
\* appends more than one row; a call that sent no insert appended nothing. (A
\* call whose insert failed on the client's side returns false whether or not
\* the store appended.)
C15_TrueOnlyIfAppended ==
    \A i \in DOMAIN syncCalls :
        LET call == syncCalls[i] IN
        /\ Cardinality(RowsBy(i)) <= 1
        /\ (call.stage = "resolved" /\ call.result) =>
               /\ Cardinality(RowsBy(i)) = 1
               /\ call.user_id \in Users
               /\ \A k \in RowsBy(i) :
                      sessions[k] = InsertedRow(call, i, k)
        /\ (\A r \in DOMAIN call.requests : call.requests[r] # "insert") =>
               RowsBy(i) = {}

\* A call has returned true, its row appended after the rows of other users.
C15_Witness ==
    /\ Len(syncCalls) >= 1
    /\ syncCalls[1].stage = "resolved" /\ syncCalls[1].result
    /\ Cardinality(RowsBy(1)) = 1
    /\ Len(sessions) = 3

\* C16: no getUserSessions call ends rejected; it returns the empty array when
\* supabase is null (having sent nothing), when getUser gave no user, and when
\* a request returned an error or threw; the rows it returns are rows of the
\* user its getUser gave it, and no more than `limit` of them.
C16_ReadsFailEmpty ==
    \A i \in DOMAIN reads :
        LET call == reads[i] IN
        /\ call.stage # "rejected"
        /\ ~configured => call.stage = "resolved" /\ call.requests = <<>>
        /\ (call.stage = "resolved"
              /\ (~configured \/ call.user_id = NULL \/ call.error)) =>
               call.data = <<>>
        /\ call.stage # "resolved" => call.data = <<>>
        /\ Len(call.data) <= call.limit
        /\ \A k \in DOMAIN call.data :
               /\ call.user_id \in Users
               /\ call.data[k].user_id = call.user_id

\* A read with limit 1 has returned one row of the user, out of a collection
\* that holds two rows of that user and a row of another.
C16_Witness ==
    /\ Len(reads) = 1
    /\ reads[1].stage = "resolved" /\ reads[1].limit = 1
    /\ Len(reads[1].data) = 1
    /\ Cardinality(Eq(sessions, reads[1].user_id)) >= 2
    /\ \E k \in DOMAIN sessions : sessions[k].user_id \in OtherUsers

\* World w as the deployment without the configuration has it: never
\* authenticated, no syncSession call.
Strip(w) == [w EXCEPT !.isAuthenticated = FALSE, !.syncCalls = <<>>]

\* The worlds operation o of the App without the configuration leaves, acting
\* on world w.
LocalOutcomes(o, w) ==
    IF o[1] = "mount" THEN {Mount(w.storage, <<>>)}
    ELSE IF o[1] = "setTimerDuration"
    THEN {Render(w, setTimerDuration(w, d)) : d \in Durations}
    ELSE {Render(w,
            CASE o[1] = "handleEnergySelect" -> handleEnergySelect(w, o[2])
              [] o[1] = "handleActivitySelect" -> handleActivitySelect(w, o[2])
              [] o[1] = "handleReset" -> handleReset(w)
              [] o[1] = "setPomodoroEnabled" -> setPomodoroEnabled(w, ~w.pomodoroEnabled)
              [] o[1] = "handleStartTimer" -> handleStartTimer(w)
              [] o[1] = "handlePlayPause" -> handlePlayPause(w)
              [] o[1] = "handleResetTimer" -> handleResetTimer(w)
              [] o[1] = "setShowFeedback" -> setShowFeedback(w, TRUE)
              [] o[1] = "handleCompleteFeedback" -> handleCompleteFeedback(w, o[2], FALSE)
              [] o[1] = "tick" -> intervalCallback(w))}

\* C17: in the configured deployment, whatever the sign-ins, sign-outs, expired
\* sessions and syncSession calls (pending, returned true, returned false) did
\* since, the local state (everything but isAuthenticated and the calls) is the
\* one the last operation of the user or the timer gives in the deployment
\* without the configuration, from the same local state; and the screen, the
\* settings panel and the reset button are offered as they are there.
C17_RemoteNonInterference ==
    /\ Strip(World) \in LocalOutcomes(op, Strip(pre))
    /\ Screen(World) = Screen(Strip(World))
    /\ SettingsShown(World) = SettingsShown(Strip(World))
    /\ ResetOffered(World) = ResetOffered(Strip(World))

\* The countdown has reached its last second, still running, with the record
\* stored, after a syncSession call failed and the user was signed out.
C17_Witness ==
    /\ op[1] = "tick"
    /\ isTimerRunning /\ intervals # {} /\ timeRemaining = 1
    /\ storage # <<>>
    /\ Len(syncCalls) = 1
    /\ syncCalls[1].stage = "resolved" /\ syncCalls[1].error
    /\ ~isAuthenticated /\ identity = NULL

\* The timer sub-state of world w is as a fresh App has it, and nothing counts.
TimerSubStateInitial(w) ==
    /\ ~w.showTimer /\ ~w.isTimerRunning /\ w.timeRemaining = 0
    /\ ~w.sessionComplete /\ ~w.showFeedback /\ ~w.showReflection
    /\ w.intervals = {} /\ w.timerRef = NoTimer

\* C18 as stated: handleEnergySelect, from any reachable state, leaves
\* currentActivity null and the timer sub-state at its initial values with no
\* countdown ticking.
C18_EnergySelectDiscardsTimer ==
    \A level \in EnergyLevels :
        LET w == Render(World, handleEnergySelect(World, level)) IN
        /\ w.currentActivity = NULL
        /\ TimerSubStateInitial(w)

\* C18, amended: handleEnergySelect is offered on the Idle screen only; there no
\* activity is in progress and the timer sub-state is at its initial values,
\* and so both are after it. (The handler writes energyLevel and
\* currentActivity and nothing else.)
C18_EnergySelectOnlyFromIdle ==
    /\ energyLevel # NULL => \A level \in EnergyLevels : ~ENABLED EnergySelect(level)
    /\ energyLevel = NULL => currentActivity = NULL /\ TimerSubStateInitial(World)
    /\ op[1] = "handleEnergySelect" =>
           /\ pre.energyLevel = NULL /\ pre.currentActivity = NULL
           /\ TimerSubStateInitial(pre)
           /\ currentActivity = NULL
           /\ TimerSubStateInitial(World)
           /\ OthersAsBefore({"energyLevel", "storage"})

\* A new energy level selected after a cycle with the pomodoro option on.
C18_Witness ==
    /\ op[1] = "handleEnergySelect" /\ op[2] = "low"
    /\ pomodoroEnabled
    /\ energyLevel = "low" /\ currentActivity = NULL /\ ~showTimer

\* C19: handleActivitySelect(a), which acts only with an energy level set, sets
\* currentActivity = a and leaves energyLevel as it was; after it the timer is
\* not shown and not running, sessionComplete and showFeedback are false, and
\* showReflection is true when a = reflect (and as before otherwise).
C19_ActivitySelect ==
    /\ energyLevel # NULL =>
           \A a \in Activities :
               LET w == Render(World, handleActivitySelect(World, a)) IN
               /\ w.currentActivity = a
               /\ w.energyLevel = energyLevel
               /\ ~w.showTimer /\ ~w.sessionComplete /\ ~w.showFeedback
               /\ a = "reflect" => w.showReflection
               /\ a # "reflect" => w.showReflection = showReflection
    /\ op[1] = "handleActivitySelect" =>
           /\ op[2] \in Activities
           /\ pre.energyLevel # NULL
           /\ currentActivity = op[2]
           /\ energyLevel = pre.energyLevel
           /\ ~showTimer /\ ~isTimerRunning /\ intervals = {}
           /\ ~sessionComplete /\ ~showFeedback
           /\ showReflection = (op[2] = "reflect")

\* reflect selected at low energy.
C19_Witness ==
    /\ op[1] = "handleActivitySelect" /\ op[2] = "reflect"
    /\ pre.energyLevel = "low" /\ ~pre.showReflection
    /\ currentActivity = "reflect" /\ showReflection

\* The payload st of the storage is absent or JSON.parse throws on it.
Unreadable(st) == st = <<>> \/ ~JSONParse(st[1]).ok

\* C20: a mount over an absent or unparseable payload leaves App as a mount over
\* empty storage does, energyLevel and currentActivity null on the Idle screen,
\* and selecting an energy level from there gives what it gives after a mount
\* over empty storage, the stored record included.
C20_LoadFailsSoft ==
    (op[1] = "mount" /\ Unreadable(pre.storage)) =>
        LET fresh == Mount(<<>>, syncCalls) IN
        /\ energyLevel = NULL /\ currentActivity = NULL
        /\ Screen(World) = "Idle"
        /\ [World EXCEPT !.storage = <<>>] = fresh
        /\ \A level \in EnergyLevels :
               Render(World, handleEnergySelect(World, level))
                   = Render(fresh, handleEnergySelect(fresh, level))

\* A mount over a payload JSON.parse throws on.
C20_Witness ==
    /\ op[1] = "mount"
    /\ pre.storage = <<CorruptText>>
    /\ storage = <<CorruptText>>
    /\ energyLevel = NULL

\* C21, as stated: a setItem that throws in the save effect is recovered
\* locally: App stays mounted, and energyLevel, currentActivity and the timer
\* state are as the operation that caused the write set them.
C21_WriteFailureRecovered ==
    /\ mounted
    /\ op[1] = "handleEnergySelect" =>
           /\ energyLevel = op[2] /\ currentActivity = NULL
           /\ OthersAsBefore({"energyLevel", "currentActivity", "storage"})
    /\ op[1] = "handleActivitySelect" =>
           /\ currentActivity = op[2] /\ energyLevel = pre.energyLevel
           /\ timerDuration = pre.timerDuration
           /\ timeRemaining = pre.timeRemaining
           /\ isTimerRunning = pre.isTimerRunning

\* C22, as stated: when handleSignOut finishes, CloudSync's user is null and
\* App's isAuthenticated is false, whether the remote sign-out succeeded,
\* returned an error or threw.
C22_SignOutClearsIdentity ==
    [][(pending = "signOut" /\ pending' = "none") =>
           (user' = NULL /\ ~isAuthenticated')]_vars

\* C23: handleSignIn changes nothing without the configuration or with the
\* email empty; the handler does not overlap with itself or with
\* handleSignOut; when its request has settled, whatever the outcome, the
\* message is not empty and isLoading is false, and after a returned or a thrown
\* error the email is the one the user typed.
C23_SignInNeverRaises ==
    /\ handleSignIn(Cloud, FALSE) = Cloud
    /\ email = "" => handleSignIn(Cloud, configured) = Cloud
    /\ (cop[1] = "handleSignIn" /\ cpre.email = "") =>
           [Cloud EXCEPT !.user = cpre.user] = cpre
    /\ (cop[1] = "handleSignIn" /\ cpre.email # "") =>
           isLoading /\ message = "" /\ pending = "signInWithOtp"
    /\ pending # "none" => isLoading
    /\ cop[1] = "signInSettled" =>
           /\ cop[2] \in GetUserOutcomes
           /\ cpre.pending = "signInWithOtp" /\ pending = "none"
           /\ message # ""
           /\ ~isLoading
           /\ cop[2] # "ok" => email = cpre.email /\ email \in Emails
           /\ cop[2] = "ok" => message = LinkSent /\ email = ""

\* A sign-in attempt has failed with an error that carries no message.
C23_Witness ==
    /\ cop = <<"signInSettled", "throw">>
    /\ message = SomethingWentWrong
    /\ email \in Emails /\ ~isLoading /\ user = NULL

\* C24: while the last notification delivered to CloudSync says signed out
\* (user is null), no step starts a syncSession call, so no feedback given then
\* is synced; while the provider has no identity no call gets past its getUser;
\* and a row is appended only by the insert of a call that got a user. What is
\* appended after the sign-out is the row of a call that was given its user
\* before it.
C24_SignOutStopsSync ==
    [][/\ user = NULL => Len(syncCalls') = Len(syncCalls)
       /\ identity = NULL =>
              \A i \in DOMAIN syncCalls :
                  syncCalls[i].stage = "getUser" => syncCalls'[i].stage # "insert"
       /\ sessions' # sessions =>
              \E i \in DOMAIN syncCalls :
                  /\ syncCalls[i].stage = "insert"
                  /\ syncCalls[i].user_id \in Users
                  /\ sessions' = Append(sessions,
                                        InsertedRow(syncCalls[i], i, Len(sessions) + 1))
      ]_vars

\* A cycle was synced while signed in; the user signed out, completed another
\* cycle and gave feedback: no call was started and the collection has the one
\* row.
C24_Witness ==
    /\ op[1] = "handleCompleteFeedback" /\ op[2] = "good"
    /\ user = NULL /\ identity = NULL /\ ~pre.isAuthenticated
    /\ pre.syncCalls = 1 /\ Len(syncCalls) = 1
    /\ syncCalls[1].stage = "resolved" /\ syncCalls[1].result
    /\ Len(sessions) = 1

\* C25: with isTimerRunning false no interval is registered and timerRef is
\* null, and none is left when App is removed from the tree; a tick only ever
\* acts on a running timer through the registered interval; after a pause,
\* handleResetTimer, the completing tick, handleReset, handleCompleteFeedback
\* and a reload no interval is left, a pause leaves timeRemaining as it was,
\* and after handleResetTimer timeRemaining stays at timerDuration * 60.
C25_TickCancelled ==
    /\ ~isTimerRunning => intervals = {} /\ timerRef = NoTimer
    /\ ~mounted => intervals = {} /\ ~isTimerRunning
    /\ op[1] = "tick" =>
           /\ pre.isTimerRunning /\ pre.mounted
           /\ pre.intervals = {pre.timerRef}
    /\ op[1] \in {"handleResetTimer", "handleReset", "handleCompleteFeedback", "mount"} =>
           intervals = {} /\ ~isTimerRunning
    /\ (op[1] = "tick" /\ pre.timeRemaining <= 1) => intervals = {}
    /\ (op[1] = "handlePlayPause" /\ pre.isTimerRunning) =>
           intervals = {} /\ timeRemaining = pre.timeRemaining
    /\ op[1] = "handleResetTimer" => timeRemaining = FullTime

\* handleResetTimer has acted on a countdown running at its last second.
C25_Witness ==
    /\ op[1] = "handleResetTimer"
    /\ pre.isTimerRunning /\ pre.intervals # {} /\ pre.timeRemaining = 1
    /\ intervals = {} /\ timeRemaining = FullTime

\* C26: with currentActivity = reflect, showTimer, isTimerRunning,
\* sessionComplete and showFeedback are false and no time is on the clock; the
\* screen offers the reset button and nothing else (no settings panel, no
\* timer control, no feedback, no selection); and reflect is left by
\* handleReset only.
C26_ReflectBypassesTimer ==
    /\ currentActivity = "reflect" =>
           /\ ~showTimer /\ ~isTimerRunning /\ ~sessionComplete /\ ~showFeedback
           /\ timeRemaining = 0 /\ intervals = {}
           /\ Screen(World) = "ActivityChosen"
           /\ ENABLED Reset
           /\ ~ENABLED StartTimer /\ ~ENABLED SetPomodoroEnabled
           /\ \A d \in Durations : ~ENABLED SetTimerDuration(d)
           /\ ~ENABLED PlayPause /\ ~ENABLED ResetTimer /\ ~ENABLED RequestFeedback
           /\ \A f \in FeedbackChoices \cup {NoFeedback} : ~ENABLED CompleteFeedback(f)
           /\ \A level \in EnergyLevels : ~ENABLED EnergySelect(level)
           /\ \A a \in Activities : ~ENABLED ActivitySelect(a)
    /\ (pre.currentActivity = "reflect" /\ currentActivity # "reflect") =>
           op[1] = "handleReset"

\* The page reloaded on the reflection screen.
C26_Witness ==
    /\ op[1] = "mount"
    /\ pre.currentActivity = "reflect" /\ pre.showReflection
    /\ currentActivity = "reflect" /\ ~showReflection
    /\ Screen(World) = "ActivityChosen"

\* C27: 0 <= timeRemaining <= timerDuration * 60 in every reachable state, and
\* no duration offered on the settings screen, handleResetTimer or handleReset
\* would take it out of that range.
C27_TimeRemainingInRange ==
    /\ 0 <= timeRemaining /\ timeRemaining <= timerDuration * SecondsPerMinute
    /\ SettingsShown(World) =>
           \A d \in PresetDurations \cup SliderDurations :
               timeRemaining <= setTimerDuration(World, d).timerDuration * SecondsPerMinute
    /\ op[1] = "handleReset" => timeRemaining = 0
    /\ op[1] = "tick" => timeRemaining < pre.timeRemaining

\* The countdown of a duration set on the settings screen, at its first second.
C27_Witness ==
    /\ timerDuration = 5 /\ pre.timerDuration = 5
    /\ op[1] = "tick" /\ pre.timeRemaining = 300 /\ timeRemaining = 299

\* C28: isTimerRunning implies timeRemaining > 0 and sessionComplete false; the
\* play/pause button is offered only with time left and the session not
\* complete.
C28_RunningImpliesTimeLeft ==
    /\ isTimerRunning => timeRemaining > 0 /\ ~sessionComplete
    /\ Screen(World) = "Timer" => timeRemaining > 0 /\ ~sessionComplete
    /\ op[1] = "handlePlayPause" => pre.timeRemaining > 0

\* The countdown resumed at its last second.
C28_Witness ==
    /\ op[1] = "handlePlayPause"
    /\ ~pre.isTimerRunning /\ isTimerRunning
    /\ timeRemaining = 1

\* The stored record, read back.
StoredSession == JSONParse(storage[1])

\* C29: once the storage is empty or written by App (a payload found at the
\* start that JSON.parse throws on stays until then), the record exists exactly
\* when energyLevel or currentActivity is set, and its energyLevel and
\* currentActivity are those in memory.
C29_RecordIffSelected ==
    storage # <<CorruptText>> =>
        /\ storage # <<>> <=> (energyLevel # NULL \/ currentActivity # NULL)
        /\ storage # <<>> =>
               /\ StoredSession.ok
               /\ StoredSession.energyLevel = energyLevel
               /\ StoredSession.currentActivity = currentActivity

\* The record of an energy level overwritten by the record of the level and an
\* activity.
C29_Witness ==
    /\ op[1] = "handleActivitySelect"
    /\ pre.storage = <<JSONStringify("medium", NULL)>>
    /\ storage = <<JSONStringify("medium", "rest")>>
    /\ currentActivity = "rest"

\* C30: currentActivity set implies energyLevel set, in memory, in the stored
\* record, and in what a fresh mount over the storage restores.
C30_ActivityImpliesEnergy ==
    /\ currentActivity # NULL => energyLevel # NULL
    /\ (storage # <<>> /\ StoredSession.ok) =>
           (StoredSession.currentActivity # NULL => StoredSession.energyLevel # NULL)
    /\ LET fresh == Mount(storage, <<>>) IN
       fresh.currentActivity # NULL => fresh.energyLevel # NULL

\* A reload restored an activity with its energy level.
C30_Witness ==
    /\ op[1] = "mount"
    /\ currentActivity = "study" /\ energyLevel = "low"
    /\ pre.currentActivity = "study" /\ pre.showTimer

-----------------------------------------------------------------------------
(* C31 *)

\* C31: the feedback prompt is entered only from the completion screen. While
\* showFeedback is set the session is complete, no time remains, the timer is
\* stopped and the activity is study or rest; setShowFeedback(true) is called
\* only on the completion screen, and handleCompleteFeedback only on the
\* prompt, after a countdown has reached 0.
C31_FeedbackOnlyAfterCompletion ==
    /\ showFeedback =>
          /\ sessionComplete
          /\ timeRemaining = 0
          /\ ~isTimerRunning
          /\ currentActivity \in {"study", "rest"}
    /\ op[1] = "setShowFeedback" =>
          /\ pre.sessionComplete /\ ~pre.showFeedback
          /\ pre.timeRemaining = 0 /\ ~pre.isTimerRunning
    /\ op[1] = "handleCompleteFeedback" =>
          /\ pre.showFeedback /\ pre.sessionComplete
          /\ pre.timeRemaining = 0
          /\ pre.currentActivity \in {"study", "rest"}

C31_Witness ==
    /\ op[1] = "setShowFeedback"
    /\ showFeedback /\ sessionComplete /\ timeRemaining = 0
    /\ currentActivity = "rest" /\ Screen(World) = "FeedbackPrompt"

-----------------------------------------------------------------------------
(* C32 *)

\* C32: at most one syncSession call per completed countdown, and no retry.
\* A step that adds a call adds exactly one, is a handleCompleteFeedback taken
\* on the prompt of a completed session, and uses the completion up
\* (sessionComplete is false after it); sessionComplete becomes true only by
\* the tick that brings timeRemaining to 0, which adds no call. So the calls
\* never outnumber the completions. A call sends getUser once and the insert at
\* most once, and a settled call (failed or not) is never touched again.
C32_OneAttemptPerCompletion ==
    [][/\ Len(syncCalls') > Len(syncCalls) =>
             /\ Len(syncCalls') = Len(syncCalls) + 1
             /\ op'[1] = "handleCompleteFeedback"
             /\ sessionComplete /\ showFeedback /\ timeRemaining = 0
             /\ ~sessionComplete'
       /\ (sessionComplete' /\ ~sessionComplete) =>
             /\ op'[1] = "tick"
             /\ timeRemaining' = 0
             /\ syncCalls' = syncCalls
       /\ Len(syncCalls') >= Len(syncCalls)
       /\ \A i \in DOMAIN syncCalls :
             /\ syncCalls[i].stage \in {"resolved", "rejected"} =>
                   syncCalls'[i] = syncCalls[i]
             /\ syncCalls'[i].requests \in
                   {<<>>, <<"getUser">>, <<"getUser", "insert">>}
             /\ syncCalls'[i].session = syncCalls[i].session
      ]_vars

\* A call failed, the next countdown has completed, and the failed call has
\* not been sent again.
C32_Witness ==
    /\ Len(syncCalls) = 1
    /\ syncCalls[1].stage = "resolved" /\ syncCalls[1].error
    /\ syncCalls[1].requests = <<"getUser", "insert">>
    /\ sessions = <<>>
    /\ op[1] = "tick" /\ sessionComplete

-----------------------------------------------------------------------------
(* C33 *)

\* The browser keeps delivering the ticks of a registered interval: a live
\* interval fires again and again until it is cleared.
SpecCountdown == Init /\ [][Next]_vars /\ WF_vars(\E i \in intervals : Tick(i))

\* The user has stopped the countdown: a pause, a timer reset, a session reset
\* or a reload was the last operation and the timer is not running.
Interrupted ==
    /\ ~isTimerRunning
    /\ op[1] \in {"handlePlayPause", "handleResetTimer", "handleReset", "mount"}

\* C33: a running countdown with time left leads to the completion state
\* (timeRemaining 0, timer stopped, sessionComplete) unless the user pauses,
\* resets the timer, resets the session or reloads first.
C33_CountdownCompletes ==
    (isTimerRunning /\ timeRemaining > 0)
        ~> \/ (timeRemaining = 0 /\ ~isTimerRunning /\ sessionComplete)
           \/ Interrupted

\* The 5-minute countdown has run to its end after a pause and a resume.
C33_Witness ==
    /\ op[1] = "tick"
    /\ timeRemaining = 0 /\ ~isTimerRunning /\ sessionComplete
    /\ timerDuration = MaxDuration /\ intervals = {}
    /\ Screen(World) = "TimerComplete" /\ currentActivity = "study"
    /\ energyLevel = "medium"

-----------------------------------------------------------------------------
(* C34 *)

\* C34: at most one interval is live, it is the one timerRef holds (none is
\* orphaned), and one is live only while the timer is running with time left
\* on the shown timer; a tick that does not complete the countdown leaves the
\* same interval registered, and a start or resume registers exactly one over
\* none.
C34_OneInterval ==
    /\ Cardinality(intervals) <= 1
    /\ intervals = (IF timerRef = NoTimer THEN {} ELSE {timerRef})
    /\ intervals # {} => (isTimerRunning /\ timeRemaining > 0 /\ showTimer)
    /\ (op[1] = "tick" /\ pre.timeRemaining > 1) =>
           (intervals = pre.intervals /\ timerRef = pre.timerRef)
    /\ (op[1] \in {"handleStartTimer", "handlePlayPause"} /\ isTimerRunning) =>
           (pre.intervals = {} /\ Cardinality(intervals) = 1)

\* A resume of a stopped countdown standing at its full time: one interval
\* again.
C34_Witness ==
    /\ op[1] = "handlePlayPause"
    /\ isTimerRunning /\ ~pre.isTimerRunning
    /\ timeRemaining = FullTime
    /\ pre.intervals = {} /\ Cardinality(intervals) = 1
    /\ intervals = {timerRef}

-----------------------------------------------------------------------------
(* C35 *)

\* C35 (as stated): in every state, the state restored after a reload
\* included, showReflection is true exactly when currentActivity is reflect.
C35_ReflectionMatchesActivity ==
    showReflection <=> (currentActivity = "reflect")

-----------------------------------------------------------------------------
(* C36 *)

\* The timer started in the cycle that follows world w: an energy level, a
\* timed activity, Start Timer.
NextCycleStarted(w) ==
    handleStartTimer(handleActivitySelect(handleEnergySelect(w, "high"), "study"))

\* C36: handleReset, from whatever state it is called in, leaves
\* timerDuration, pomodoroEnabled and isAuthenticated as they are (after the
\* render that follows it too), so the timer started in the next cycle counts
\* down from the duration chosen before the reset.
C36_ResetKeepsConfiguration ==
    /\ LET w == Render(World, handleReset(World)) IN
           /\ w.timerDuration = timerDuration
           /\ w.pomodoroEnabled = pomodoroEnabled
           /\ w.isAuthenticated = isAuthenticated
           /\ NextCycleStarted(w).timeRemaining = timerDuration * SecondsPerMinute
    /\ op[1] \in {"handleReset", "handleCompleteFeedback"} =>
           /\ timerDuration = pre.timerDuration
           /\ pomodoroEnabled = pre.pomodoroEnabled

\* A signed-in user has reset a session whose timer had been set to 5 minutes
\* with the pomodoro option on.
C36_Witness ==
    /\ op[1] = "handleReset"
    /\ pre.showTimer /\ pre.timerDuration = MaxDuration /\ pre.pomodoroEnabled
    /\ timerDuration = MaxDuration /\ timerDuration # DefaultDuration
    /\ pomodoroEnabled /\ isAuthenticated
    /\ Screen(World) = "Idle"

-----------------------------------------------------------------------------
(* C37 *)

\* C37: the record handed to syncSession describes the cycle that has just
\* completed. From the start of a timer (showTimer turning true, with
\* timeRemaining = timerDuration * 60) as long as the timer stays shown, that
\* is through the countdown, its completion and the feedback prompt,
\* energyLevel, currentActivity and timerDuration do not change; the countdown
\* completes on a shown timer; and the step that starts a call is taken on the
\* prompt of the completed session and hands over these values, non-null,
\* with an activity that is study or rest.
C37_RecordDescribesCompletedCycle ==
    [][/\ (~showTimer /\ showTimer') =>
             /\ timeRemaining' = timerDuration' * SecondsPerMinute
             /\ <<energyLevel, currentActivity, timerDuration>>' =
                    <<energyLevel, currentActivity, timerDuration>>
       /\ (showTimer /\ showTimer') =>
             <<energyLevel, currentActivity, timerDuration>>' =
                 <<energyLevel, currentActivity, timerDuration>>
       /\ (sessionComplete' /\ ~sessionComplete) => (showTimer /\ showTimer')
       /\ Len(syncCalls') > Len(syncCalls) =>
             /\ showTimer /\ sessionComplete /\ showFeedback
             /\ energyLevel \in EnergyLevels
             /\ currentActivity \in {"study", "rest"}
             /\ syncCalls'[Len(syncCalls')].session =
                    [energy_level |-> energyLevel,
                     activity |-> currentActivity,
                     duration_minutes |-> timerDuration,
                     feedback |-> op'[2]]
      ]_vars

\* The record of a completed 5-minute study session has been handed over.
C37_Witness ==
    /\ op[1] = "handleCompleteFeedback" /\ op[2] = "good"
    /\ pre.timerDuration = MaxDuration /\ pre.timerDuration # DefaultDuration
    /\ pre.syncCalls = 0 /\ Len(syncCalls) = 1
    /\ syncCalls[1].session =
           [energy_level |-> "high", activity |-> "study",
            duration_minutes |-> MaxDuration, feedback |-> "good"]

-----------------------------------------------------------------------------
(* C38 *)

\* C38: feedback is not required. The completion screen offers the reset, and
\* handleReset taken there, with or without an identity, leaves the calls to
\* syncSession and the remote collection as they are and leads to Idle: a
\* completed cycle may leave no remote record.
C38_ResetSkipsSync ==
    /\ Screen(World) = "TimerComplete" =>
           /\ ResetOffered(World)
           /\ LET w == Render(World, handleReset(World)) IN
                  /\ w.syncCalls = syncCalls
                  /\ Screen(w) = "Idle"
    /\ op[1] = "handleReset" => Len(syncCalls) = pre.syncCalls
    /\ (op[1] = "handleReset" /\ pre.sessionComplete) =>
           /\ ~pre.showFeedback
           /\ Screen(World) = "Idle"
           /\ Len(sessions) <= Len(syncCalls)

\* A signed-in user, whose identity the provider still holds, has left the
\* completion screen of their first cycle by the reset: no call, no record.
C38_Witness ==
    /\ op[1] = "handleReset"
    /\ pre.sessionComplete /\ ~pre.showFeedback /\ pre.isAuthenticated
    /\ isAuthenticated /\ identity # NULL
    /\ syncCalls = <<>> /\ sessions = <<>>
    /\ Screen(World) = "Idle"

-----------------------------------------------------------------------------
(* C39 *)

\* C39 (as stated): the .then callback of the initial getUser(), when it runs
\* after a notification that is newer than its answer was delivered, changes
\* neither CloudSync's user nor App's isAuthenticated: the newer notification
\* stands.
C39_LateLookupKeepsNewerState ==
    [][(lookup.stage = "answered" /\ lookup.newer /\ lookup'.stage = "done") =>
           (user' = user /\ isAuthenticated' = isAuthenticated)]_vars

====
